---- MODULE Spec2Model ----
(***************************************************************************)
(* Device Online Tracker: the poll cycle (update_device_data), the restore *)
(* at setup (async_setup_entry) and the shared persistence store, as a     *)
(* state machine.  Time is a wall clock counted in ticks of TickSeconds    *)
(* seconds; a calendar day is DayTicks ticks long.                         *)
(***************************************************************************)
EXTENDS Integers, FiniteSets, Sequences, TLC

\* ---------------------------------------------------------------- bounds
\* Seconds between two readings of the wall clock that the model tells apart.
TickSeconds == 30
\* Length of a calendar day in ticks (shortened so that midnight is reached).
DayTicks == 6
\* The wall clock stops advancing here when one entry is configured ...
MaxTime == 8
\* ... and here when two entries share the store.
SharedMaxTime == 1

\* ------------------------------------------------------ program constants
\* total_seconds() / 60
SecondsPerMinute == 60
\* "last_check": None
None == -1
\* An online_time that is a string: line 234 takes the stored value over as it is.
Text == -2
\* A record without the "online_time" key.
Absent == -3

\* The configured entries (entry.entry_id).
Devices == {"a", "b"}

\* The addresses an entry can be given: an IP address and a MAC address.
IpHost == "192.168.1.5"
MacHost == "aa:bb:cc:dd:ee:ff"
Hosts == {IpHost, MacHost}
\* An entry that does not exist has no host and no name.
NoHost == ""

\* The names an entry can be given in the form.
Names == {"tv", "phone", "printer"}

VARIABLES
    configured,    \* the entries the host has configured
    horizon,       \* the last tick of the wall clock
    host,          \* per entry: entry.data[CONF_HOST]
    title,         \* per entry: entry.data[CONF_NAME], its unique id
    flow,          \* what the last step of the config flow returned
    registered,    \* per entry: hass.data[DOMAIN] holds its coordinator
    published,     \* per entry: coordinator.data is the dict update_device_data returned
    now,           \* datetime.now(), in ticks
    pc,            \* per entry: where its setup / poll cycle stands
    device_data,   \* per entry: the in-memory dict of async_setup_entry
    current_time,  \* per entry: the probe's timestamp of the cycle in flight
    stored_data,   \* per entry: the namespace the cycle in flight loaded and edited
    store,         \* the persisted namespace: entry_id -> saved record
    before,        \* history: device_data as it was when the cycle in flight began
    last_saved,    \* history: the record each entry's latest successful save wrote
    save_failed,   \* history: the cycle that just finished had its load or save raise
    restored       \* history: what the setup found, until the first cycle finishes

\* What the poll cycle never changes.
config == <<configured, horizon, host, title, flow>>

vars == <<config, registered, published, now, pc, device_data, current_time, stored_data, store,
          before, last_saved, save_failed, restored>>

\* ------------------------------------------------------------ conversions
\* datetime.date(): the calendar day of a timestamp.
Date(t) == t \div DayTicks

\* date.isoformat() and its parse by strptime(..., "%Y-%m-%d").date()
DateIso(d) == <<"date", d>>
ParseDate(s) == s[2]

\* datetime.isoformat() and datetime.fromisoformat()
TimeIso(t) == <<"datetime", t>>
ParseTime(s) == s[2]

\* A record without the "last_check" key.
NoKey == <<>>

\* A string that is no date and no timestamp: strptime and fromisoformat raise on it.
Garbage == <<"garbage">>

\* strptime(s, "%Y-%m-%d") accepts s.
IsDateIso(s) == Len(s) = 2 /\ s[1] = "date"

\* datetime.fromisoformat(s) accepts s.
IsTimeIso(s) == Len(s) = 2 /\ s[1] = "datetime"

\* Python's round() of secs/60 minutes: to the nearest integer, ties to even.
RoundMinutes(secs) ==
    LET q == secs \div SecondsPerMinute
        r == secs % SecondsPerMinute
    IN  IF 2 * r < SecondsPerMinute THEN q
        ELSE IF 2 * r > SecondsPerMinute THEN q + 1
        ELSE IF q % 2 = 0 THEN q ELSE q + 1

\* (current_time - last_check).total_seconds()
ElapsedSeconds(t0, t1) == (t1 - t0) * TickSeconds

\* ------------------------------------------------------------------ fold
\* Faulty variant: the new day is recorded but the counter is not reset (line 171 missing).
ResetIfNewDay_KeepsMinutes(dd, t) ==
    IF Date(t) # dd.last_date
    THEN [dd EXCEPT !.last_date = Date(t)]
    ELSE dd

\* Faulty variant: the counter is reset on every observation (the test of line 170 missing).
ResetIfNewDay_Always(dd, t) ==
    [dd EXCEPT !.online_time = 0, !.last_date = Date(t)]

\* Faulty variant: the counter is reset but the new day is not recorded (line 172 missing).
ResetIfNewDay_KeepsDate(dd, t) ==
    IF Date(t) # dd.last_date
    THEN [dd EXCEPT !.online_time = 0]
    ELSE dd

\* Lines 169-172: a new day resets the counter.
ResetIfNewDay(dd, t) ==
    IF Date(t) # dd.last_date
    THEN [dd EXCEPT !.online_time = 0, !.last_date = Date(t)]
    ELSE dd

\* Faulty variant: the stored is_online is not tested (line 175 without its second conjunct).
AccumulatedSeconds_AnyPrevious(dd, is_online, t) ==
    IF dd.last_check # None /\ is_online
    THEN dd.online_time * SecondsPerMinute + ElapsedSeconds(dd.last_check, t)
    ELSE dd.online_time * SecondsPerMinute

\* Faulty variant: the new observation is not tested (line 175 without its third conjunct).
AccumulatedSeconds_AnyObservation(dd, is_online, t) ==
    IF dd.last_check # None /\ dd.is_online
    THEN dd.online_time * SecondsPerMinute + ElapsedSeconds(dd.last_check, t)
    ELSE dd.online_time * SecondsPerMinute

\* Lines 174-177: online_time (minutes) plus the interval, in seconds.
AccumulatedSeconds(dd, is_online, t) ==
    IF dd.last_check # None /\ dd.is_online /\ is_online
    THEN dd.online_time * SecondsPerMinute + ElapsedSeconds(dd.last_check, t)
    ELSE dd.online_time * SecondsPerMinute

\* Faulty variant: the interval is rounded on its own and then added (round(time_diff)).
Fold_RoundsInterval(dd, is_online, t) ==
    LET r == ResetIfNewDay(dd, t)
    IN  [online_time |-> r.online_time + RoundMinutes(AccumulatedSeconds(r, is_online, t)
                                             - r.online_time * SecondsPerMinute),
         last_check  |-> t,
         last_date   |-> r.last_date,
         is_online   |-> is_online]

\* Lines 166-181: the whole fold of one observation.
Fold(dd, is_online, t) ==
    LET r == ResetIfNewDay(dd, t)
    IN  [online_time |-> RoundMinutes(AccumulatedSeconds(r, is_online, t)),
         last_check  |-> t,
         last_date   |-> r.last_date,
         is_online   |-> is_online]

\* Faulty variant: the record is written without last_check (lines 192-193 missing).
SaveData_OmitsLastCheck(dd) ==
    [online_time |-> dd.online_time,
     last_date   |-> DateIso(dd.last_date),
     is_online   |-> dd.is_online,
     last_check  |-> NoKey]

\* Lines 186-193: the record written for an entry.
SaveData(dd) ==
    [online_time |-> dd.online_time,
     last_date   |-> DateIso(dd.last_date),
     is_online   |-> dd.is_online,
     last_check  |-> IF dd.last_check # None THEN TimeIso(dd.last_check) ELSE NoKey]

\* Line 195: stored_data[entry_id] = save_data
PutEntry(ns, d, rec) ==
    [k \in (DOMAIN ns) \cup {d} |-> IF k = d THEN rec ELSE ns[k]]

\* ----------------------------------------------------------------- setup
\* Lines 214-219.
DefaultData(today) ==
    [online_time |-> 0, last_check |-> None, last_date |-> today, is_online |-> FALSE]

\* Faulty variant: the stored minutes are taken over without the date test of line 233.
Restore_IgnoresDate(ns, d, today) ==
    IF d \in DOMAIN ns
    THEN [DefaultData(today) EXCEPT !.online_time = ns[d].online_time]
    ELSE DefaultData(today)

\* Faulty variant: the stored is_online is taken over as well.
Restore_TakesIsOnline(ns, d, today) ==
    IF d \in DOMAIN ns /\ IsDateIso(ns[d].last_date)
       /\ ParseDate(ns[d].last_date) = today /\ ns[d].online_time # Absent
    THEN [online_time |-> ns[d].online_time,
          last_check  |-> IF IsTimeIso(ns[d].last_check)
                          THEN ParseTime(ns[d].last_check) ELSE None,
          last_date   |-> ParseDate(ns[d].last_date),
          is_online   |-> ns[d].is_online]
    ELSE DefaultData(today)

\* Lines 224-238 and 245-249: the state built from the stored namespace.  The
\* except of line 241 keeps what was assigned before the exception: a missing or
\* unparsable last_date (lines 228-231) and a missing online_time (line 234) raise
\* before anything is assigned, an unparsable last_check (line 238) after
\* online_time and last_date were.
Restore(ns, d, today) ==
    IF d \in DOMAIN ns /\ IsDateIso(ns[d].last_date)
       /\ ParseDate(ns[d].last_date) = today /\ ns[d].online_time # Absent
    THEN [online_time |-> ns[d].online_time,
          last_check  |-> IF IsTimeIso(ns[d].last_check)
                          THEN ParseTime(ns[d].last_check) ELSE None,
          last_date   |-> ParseDate(ns[d].last_date),
          is_online   |-> FALSE]
    ELSE DefaultData(today)

\* What the setup found in the store for the entry; "failed" when the restore raised.
Found(ns, d, today) ==
    IF d \notin DOMAIN ns THEN "absent"
    ELSE IF ~IsDateIso(ns[d].last_date) THEN "failed"
    ELSE IF ParseDate(ns[d].last_date) # today THEN "stale"
    ELSE IF ns[d].online_time = Absent THEN "failed"
    ELSE IF ns[d].last_check # NoKey /\ ~IsTimeIso(ns[d].last_check) THEN "failed"
    ELSE "same_day"

EmptyNamespace == [k \in {} |-> NoKey]

\* ------------------------------------------------------------------ Init
\* The entries the host starts with: "a" tracks a MAC address, "b" an IP address.
InitWith(entries, last_tick, namespace) ==
    /\ configured = entries
    /\ horizon = last_tick
    /\ host = [d \in Devices |-> IF d \notin entries THEN NoHost
                                 ELSE IF d = "a" THEN MacHost ELSE IpHost]
    /\ title = [d \in Devices |-> IF d \notin entries THEN NoHost
                                  ELSE IF d = "a" THEN "tv" ELSE "phone"]
    /\ flow = "none"
    /\ registered = [d \in Devices |-> FALSE]
    /\ published = [d \in Devices |-> FALSE]
    /\ now = 0
    /\ pc = [d \in Devices |-> "unloaded"]
    /\ device_data = [d \in Devices |-> DefaultData(0)]
    /\ current_time = [d \in Devices |-> None]
    /\ stored_data = [d \in Devices |-> EmptyNamespace]
    /\ store = namespace
    /\ before = [d \in Devices |-> DefaultData(0)]
    /\ last_saved = [d \in Devices |-> NoKey]
    /\ save_failed = [d \in Devices |-> FALSE]
    /\ restored = [d \in Devices |-> "none"]

\* --------------------------------------------------------------- actions
\* Line 116: a host with ":" in it is taken for a MAC address.
IsMac(h) == h = MacHost

\* subprocess.run (lines 77 and 131) does not yield: while an entry sits in it,
\* the event loop runs nothing else.
Blocking(d) == pc[d] \in {"resolving", "fallback"}

\* The event loop is free to run a step of entry d.
LoopFree(d) == \A e \in Devices \ {d} : ~Blocking(e)

\* The wall clock advances.
Tick ==
    /\ now < horizon
    /\ now' = now + 1
    /\ UNCHANGED <<config, registered, published, pc, device_data, current_time,
                   stored_data, store, before, last_saved, save_failed, restored>>

\* Faulty variant: the coordinator is registered before the first refresh (line 269 before 267).
SetupEntry_RegistersFirst(d) ==
    /\ d \in configured
    /\ pc[d] = "unloaded"
    /\ LoopFree(d)
    /\ pc' = [pc EXCEPT ![d] = "idle"]
    /\ device_data' = [device_data EXCEPT ![d] = Restore(store, d, Date(now))]
    /\ before' = [before EXCEPT ![d] = device_data'[d]]
    /\ restored' = [restored EXCEPT ![d] = Found(store, d, Date(now))]
    /\ save_failed' = [save_failed EXCEPT ![d] = FALSE]
    /\ registered' = [registered EXCEPT ![d] = TRUE]
    /\ UNCHANGED <<config, published, now, current_time, stored_data, store, last_saved>>

\* async_setup_entry, lines 205-249: the default state, then the restore.
\* The first refresh (line 267) follows as the entry's first poll cycle.
SetupEntry(d) ==
    /\ d \in configured
    /\ pc[d] = "unloaded"
    /\ LoopFree(d)
    /\ pc' = [pc EXCEPT ![d] = "idle"]
    /\ device_data' = [device_data EXCEPT ![d] = Restore(store, d, Date(now))]
    /\ before' = [before EXCEPT ![d] = device_data'[d]]
    /\ restored' = [restored EXCEPT ![d] = Found(store, d, Date(now))]
    /\ save_failed' = [save_failed EXCEPT ![d] = FALSE]
    /\ UNCHANGED <<config, registered, published, now, current_time, stored_data,
                   store, last_saved>>

\* async_setup_entry, lines 222-223 and 241-242: store.async_load() raises.
SetupEntryLoadError(d) ==
    /\ d \in configured
    /\ pc[d] = "unloaded"
    /\ LoopFree(d)
    /\ pc' = [pc EXCEPT ![d] = "idle"]
    /\ device_data' = [device_data EXCEPT ![d] = DefaultData(Date(now))]
    /\ before' = [before EXCEPT ![d] = device_data'[d]]
    /\ restored' = [restored EXCEPT ![d] = "absent"]
    /\ save_failed' = [save_failed EXCEPT ![d] = FALSE]
    /\ UNCHANGED <<config, registered, published, now, current_time, stored_data,
                   store, last_saved>>

\* check_device_status, lines 113-118: the cycle starts and reads the clock; a
\* MAC host goes into the neighbour-table lookup, an IP host into the ping.
PollStart(d) ==
    /\ pc[d] = "idle"
    /\ LoopFree(d)
    /\ pc' = [pc EXCEPT ![d] = IF IsMac(host[d]) THEN "resolving" ELSE "probing"]
    /\ current_time' = [current_time EXCEPT ![d] = now]
    /\ save_failed' = [save_failed EXCEPT ![d] = FALSE]
    /\ UNCHANGED <<config, registered, published, now, device_data, stored_data, store,
                   before, last_saved, restored>>

\* get_ip_from_mac, lines 88-95: the lookup found the IP; the ping is awaited (line 122).
Resolved(d) ==
    /\ pc[d] = "resolving"
    /\ pc' = [pc EXCEPT ![d] = "probing"]
    /\ UNCHANGED <<config, registered, published, now, device_data, current_time,
                   stored_data, store, before, last_saved, save_failed, restored>>

\* get_ip_from_mac, lines 97-101: no IP; the OS ping of line 131 is run.
Unresolved(d) ==
    /\ pc[d] = "resolving"
    /\ pc' = [pc EXCEPT ![d] = "fallback"]
    /\ UNCHANGED <<config, registered, published, now, device_data, current_time,
                   stored_data, store, before, last_saved, save_failed, restored>>

\* Lines 175-181 on a counter that holds text: "+=" (line 177) raises before the
\* observation is stored, round() (line 181) after it.
FoldRaised(dd, is_online, t) ==
    LET r == ResetIfNewDay(dd, t)
    IN  IF r.last_check # None /\ r.is_online /\ is_online
        THEN r
        ELSE [r EXCEPT !.is_online = is_online, !.last_check = t]

\* Lines 166-181 and 201-203: the observation (is_online, t) is folded; a fold
\* that raises ends the cycle, which returns device_data as the fold left it.
FoldStep(d, is_online, t) ==
    IF ResetIfNewDay(device_data[d], t).online_time # Text
    THEN /\ pc' = [pc EXCEPT ![d] = "folded"]
         /\ current_time' = [current_time EXCEPT ![d] = t]
         /\ before' = [before EXCEPT ![d] = device_data[d]]
         /\ device_data' = [device_data EXCEPT ![d] = Fold(device_data[d], is_online, t)]
         /\ UNCHANGED <<config, registered, published, now, stored_data, store,
                        last_saved, save_failed, restored>>
    ELSE /\ pc' = [pc EXCEPT ![d] = "idle"]
         /\ current_time' = [current_time EXCEPT ![d] = None]
         /\ device_data' = [device_data EXCEPT ![d] = FoldRaised(device_data[d], is_online, t)]
         /\ before' = [before EXCEPT ![d] = device_data'[d]]
         /\ registered' = [registered EXCEPT ![d] = TRUE]
         /\ published' = [published EXCEPT ![d] = TRUE]
         /\ restored' = [restored EXCEPT ![d] = "none"]
         /\ UNCHANGED <<config, now, stored_data, store, last_saved, save_failed>>

\* Lines 144-148 and 166-181: the ping returns is_online and the observation is folded.
ProbeReturn(d, is_online) ==
    /\ pc[d] = "probing"
    /\ LoopFree(d)
    /\ FoldStep(d, is_online, current_time[d])

\* check_device_status, lines 149-151: the ping raised; (False, datetime.now()).
ProbeError(d) ==
    /\ pc[d] = "probing"
    /\ LoopFree(d)
    /\ FoldStep(d, FALSE, now)

\* Lines 129-140: the OS ping ends; its exit status (or its exception) is the observation.
FallbackPing(d, is_online) ==
    /\ pc[d] = "fallback"
    /\ FoldStep(d, is_online, current_time[d])

\* Lines 185-195: the namespace is loaded and the entry's record replaced in it.
StoreLoad(d) ==
    /\ pc[d] = "folded"
    /\ LoopFree(d)
    /\ pc' = [pc EXCEPT ![d] = "loaded"]
    /\ stored_data' = [stored_data EXCEPT ![d] = PutEntry(store, d, SaveData(device_data[d]))]
    /\ UNCHANGED <<config, registered, published, now, device_data, current_time, store,
                   before, last_saved, save_failed, restored>>

\* What a finished cycle leaves behind: its locals are gone, the dict it returned
\* is the coordinator's data, and after the first refresh line 269 registers
\* the coordinator.
CycleReturns(d, failed) ==
    /\ pc' = [pc EXCEPT ![d] = "idle"]
    /\ current_time' = [current_time EXCEPT ![d] = None]
    /\ stored_data' = [stored_data EXCEPT ![d] = EmptyNamespace]
    /\ before' = [before EXCEPT ![d] = device_data[d]]
    /\ save_failed' = [save_failed EXCEPT ![d] = failed]
    /\ restored' = [restored EXCEPT ![d] = "none"]
    /\ registered' = [registered EXCEPT ![d] = TRUE]
    /\ published' = [published EXCEPT ![d] = TRUE]
    /\ UNCHANGED <<config, now, device_data>>

\* Lines 185, 197-200: store.async_load() raises; the cycle returns device_data.
StoreLoadError(d) ==
    /\ pc[d] = "folded"
    /\ LoopFree(d)
    /\ CycleReturns(d, TRUE)
    /\ UNCHANGED <<store, last_saved>>

\* Lines 196, 200: the edited namespace is written back whole.
StoreSave(d) ==
    /\ pc[d] = "loaded"
    /\ LoopFree(d)
    /\ store' = stored_data[d]
    /\ last_saved' = [last_saved EXCEPT ![d] = <<stored_data[d][d]>>]
    /\ CycleReturns(d, FALSE)

\* Faulty variant: a failed save throws the fold away with it (state committed only on save).
StoreSaveError_RollsBack(d) ==
    /\ pc[d] = "loaded"
    /\ LoopFree(d)
    /\ pc' = [pc EXCEPT ![d] = "idle"]
    /\ current_time' = [current_time EXCEPT ![d] = None]
    /\ stored_data' = [stored_data EXCEPT ![d] = EmptyNamespace]
    /\ device_data' = [device_data EXCEPT ![d] = before[d]]
    /\ before' = [before EXCEPT ![d] = before[d]]
    /\ save_failed' = [save_failed EXCEPT ![d] = TRUE]
    /\ restored' = [restored EXCEPT ![d] = "none"]
    /\ registered' = [registered EXCEPT ![d] = TRUE]
    /\ published' = [published EXCEPT ![d] = TRUE]
    /\ UNCHANGED <<config, now, store, last_saved>>

\* Faulty variant: the exception of a failed save leaves update_device_data.
StoreSaveError_Propagates(d) ==
    /\ pc[d] = "loaded"
    /\ LoopFree(d)
    /\ pc' = [pc EXCEPT ![d] = "raised"]
    /\ UNCHANGED <<config, registered, published, now, device_data, current_time,
                   stored_data, store, before, last_saved, save_failed, restored>>

\* Lines 196-200: store.async_save() raises; the cycle returns device_data.
StoreSaveError(d) ==
    /\ pc[d] = "loaded"
    /\ LoopFree(d)
    /\ CycleReturns(d, TRUE)
    /\ UNCHANGED <<store, last_saved>>

\* The process stops: every cycle in flight is abandoned, the store stays.
\* device_data keeps the last in-memory value until the next setup replaces it.
Restart ==
    /\ \E d \in Devices : pc[d] # "unloaded"
    /\ pc' = [d \in Devices |-> "unloaded"]
    /\ current_time' = [d \in Devices |-> None]
    /\ stored_data' = [d \in Devices |-> EmptyNamespace]
    /\ before' = device_data
    /\ save_failed' = [d \in Devices |-> FALSE]
    /\ restored' = [d \in Devices |-> "none"]
    /\ registered' = [d \in Devices |-> FALSE]
    /\ published' = [d \in Devices |-> FALSE]
    /\ UNCHANGED <<config, now, device_data, store, last_saved>>

Next ==
    \/ Tick
    \/ Restart
    \/ \E d \in Devices : SetupEntry(d)
    \/ \E d \in Devices : SetupEntryLoadError(d)
    \/ \E d \in Devices : PollStart(d)
    \/ \E d \in Devices : Resolved(d)
    \/ \E d \in Devices : Unresolved(d)
    \/ \E d \in Devices : \E is_online \in BOOLEAN : ProbeReturn(d, is_online)
    \/ \E d \in Devices : ProbeError(d)
    \/ \E d \in Devices : \E is_online \in BOOLEAN : FallbackPing(d, is_online)
    \/ \E d \in Devices : StoreLoad(d)
    \/ \E d \in Devices : StoreLoadError(d)
    \/ \E d \in Devices : StoreSave(d)
    \/ \E d \in Devices : StoreSaveError(d)

\* ----------------------------------------------------------- config flow
\* config_flow.py line 22: async_step_user is called without user_input and
\* shows the empty form (lines 35-42).
StepUserForm ==
    /\ \A e \in Devices : ~Blocking(e)
    /\ flow' = "form"
    /\ UNCHANGED <<configured, horizon, host, title, registered, published, now, pc,
                   device_data, current_time, stored_data, store, before, last_saved,
                   save_failed, restored>>

\* config_flow.py lines 24-30: the unique id is the NAME of the form; no
\* configured entry has it, and the entry is created with the form as its data.
StepUser(name, h) ==
    /\ \A e \in Devices : ~Blocking(e)
    /\ \A e \in configured : title[e] # name
    /\ \E d \in Devices \ configured :
           /\ configured' = configured \cup {d}
           /\ host' = [host EXCEPT ![d] = h]
           /\ title' = [title EXCEPT ![d] = name]
    /\ flow' = "create_entry"
    /\ UNCHANGED <<horizon, registered, published, now, pc, device_data, current_time,
                   stored_data, store, before, last_saved, save_failed, restored>>

\* config_flow.py lines 25 and 31-42: a configured entry has the name as its
\* unique id; the abort is caught and the form comes back with errors["base"].
StepUserAbort(name, h) ==
    /\ \A e \in Devices : ~Blocking(e)
    /\ \E e \in configured : title[e] = name
    /\ flow' = "form_error"
    /\ UNCHANGED <<configured, horizon, host, title, registered, published, now, pc,
                   device_data, current_time, stored_data, store, before, last_saved,
                   save_failed, restored>>

\* The config flow, and the setup and unloading of the entries it creates.
NextConfig ==
    \/ StepUserForm
    \/ \E name \in Names : \E h \in Hosts : StepUser(name, h)
    \/ \E name \in Names : \E h \in Hosts : StepUserAbort(name, h)
    \/ Restart
    \/ \E d \in Devices : SetupEntry(d)
    \/ \E d \in Devices : SetupEntryLoadError(d)

\* No entry is configured yet; the wall clock stands still.
InitConfig == InitWith({}, 0, EmptyNamespace)
SpecConfig == InitConfig /\ [][NextConfig]_vars

\* One configured entry: the accumulator, the restore and the persistence.
Init == InitWith({"a"}, MaxTime, EmptyNamespace)
Spec == Init /\ [][Next]_vars

\* Two configured entries sharing the store.
InitShared == InitWith(Devices, SharedMaxTime, EmptyNamespace)
SpecShared == InitShared /\ [][Next]_vars

\* A record of today as update_device_data writes it ...
SavedRecord ==
    [online_time |-> 1, last_date |-> DateIso(0), is_online |-> TRUE,
     last_check |-> TimeIso(0)]

\* ... and the same record with one field damaged on disk.
DamagedRecords ==
    {[SavedRecord EXCEPT !.last_check = Garbage],
     [SavedRecord EXCEPT !.last_date = Garbage],
     [SavedRecord EXCEPT !.last_date = NoKey],
     [SavedRecord EXCEPT !.online_time = Absent],
     [SavedRecord EXCEPT !.online_time = Text]}

\* One configured entry that starts on a store holding a damaged record of it.
InitDamaged ==
    \E r \in DamagedRecords : InitWith({"a"}, MaxTime, [k \in {"a"} |-> r])
SpecDamaged == InitDamaged /\ [][Next]_vars

\* ============================================================== claims
\* The cycle of entry d has folded its observation and not yet returned:
\* before[d] is the state the fold started from, current_time[d] the probe's
\* timestamp, device_data[d] the folded state.
Folded(d) == pc[d] \in {"folded", "loaded"}

\* The fold was bracketed by a stored online state and a new online observation.
Bracketed(d) ==
    before[d].last_check # None /\ before[d].is_online /\ device_data[d].is_online

\* The observation is dated on another day than the state it is folded into.
NewDay(d) == Date(current_time[d]) # before[d].last_date

\* |x|
Abs(x) == IF x < 0 THEN -x ELSE x

\* n is total seconds rounded to whole minutes, nearest, a tie going to the even minute.
IsNearestMinuteTiesEven(n, total) ==
    /\ 2 * Abs(n * SecondsPerMinute - total) <= SecondsPerMinute
    /\ 2 * Abs(n * SecondsPerMinute - total) = SecondsPerMinute => n % 2 = 0

\* secs/60 rounded to the nearest minute, a tie going up.
RoundHalfUp(secs) == (2 * secs + SecondsPerMinute) \div (2 * SecondsPerMinute)

\* C1. Day rollover: a poll cycle whose probe timestamp is dated on another day
\* than current_day ends with current_day = that day and with online_minutes
\* holding nothing of the old day's minutes: 0, plus only what this cycle credits.
C1_DayRollover ==
    \A d \in Devices :
        (Folded(d) /\ NewDay(d)) =>
            /\ device_data[d].last_date = Date(current_time[d])
            /\ device_data[d].online_time =
                   IF Bracketed(d)
                   THEN RoundMinutes(ElapsedSeconds(before[d].last_check, current_time[d]))
                   ELSE 0

\* C1 witness: a rollover folded into a state that held minutes of the old day.
C1_Witness ==
    \E d \in Devices :
        /\ Folded(d) /\ NewDay(d)
        /\ before[d].online_time > 0
        /\ device_data[d].online_time = 0
        /\ device_data[d].last_date = before[d].last_date + 1

\* C2. Accumulation only on sustained online: a poll cycle whose observation is
\* offline, or whose stored is_online is false, or whose last_check is absent,
\* does not increase online_minutes, whatever time has elapsed.
C2_OnlySustainedOnline ==
    \A d \in Devices :
        (Folded(d) /\ ~Bracketed(d)) =>
            device_data[d].online_time <= before[d].online_time

\* C2 witness: online observed a minute or more after an offline reading, on the
\* same day, with minutes already on the counter.
C2_Witness ==
    \E d \in Devices :
        /\ Folded(d) /\ ~NewDay(d)
        /\ before[d].last_check # None /\ ~before[d].is_online
        /\ device_data[d].is_online
        /\ current_time[d] - before[d].last_check >= 2
        /\ before[d].online_time > 0
        /\ device_data[d].online_time = before[d].online_time

\* C3 as stated: a same-day cycle bracketed by two online observations yields
\* M + round((t1 - t0)/60s), round read either as ties-to-even or as ties-up.
C3_AsStated ==
    \A d \in Devices :
        (Folded(d) /\ Bracketed(d) /\ ~NewDay(d)) =>
            LET e == ElapsedSeconds(before[d].last_check, current_time[d])
            IN  device_data[d].online_time \in
                    {before[d].online_time + RoundMinutes(e),
                     before[d].online_time + RoundHalfUp(e)}

\* C3 amended. A same-day cycle bracketed by two online observations yields the
\* running total M + (t1 - t0)/60s rounded to the nearest whole minute, a tie
\* going to the even minute.
C3_RunningTotalRounded ==
    \A d \in Devices :
        (Folded(d) /\ Bracketed(d) /\ ~NewDay(d)) =>
            IsNearestMinuteTiesEven(
                device_data[d].online_time,
                before[d].online_time * SecondsPerMinute
                    + ElapsedSeconds(before[d].last_check, current_time[d]))

\* C3 witness: from M = 1 an interval of a minute and a half or more is folded.
C3_Witness ==
    \E d \in Devices :
        /\ Folded(d) /\ Bracketed(d) /\ ~NewDay(d)
        /\ before[d].online_time = 1
        /\ current_time[d] - before[d].last_check = 3
        /\ device_data[d].online_time > before[d].online_time

\* C4 as stated: an online-to-online interval that spans midnight earns no
\* credit; the cycle ends with online_minutes = 0 for the new day.
C4_CrossMidnightNoCredit ==
    \A d \in Devices :
        ( /\ Folded(d) /\ Bracketed(d)
          /\ Date(before[d].last_check) = before[d].last_date
          /\ Date(current_time[d]) = before[d].last_date + 1 ) =>
            device_data[d].online_time = 0

\* C5 as stated: once the overlapping cycles have finished, the persisted
\* namespace holds, for every entry, the record its latest successful save wrote.
C5_NoLostUpdate ==
    (\A d \in Devices : pc[d] = "idle") =>
        \A d \in Devices :
            last_saved[d] # NoKey =>
                d \in DOMAIN store /\ store[d] = last_saved[d][1]

\* The entry has just been set up from a record of today and has not polled yet.
RestoredSameDay(d) == pc[d] = "idle" /\ restored[d] = "same_day"

\* C6 as stated: the state built at setup from a record saved today has the
\* record's online_minutes, its is_online and its current_day.
C6_IdempotentRestore ==
    \A d \in Devices :
        RestoredSameDay(d) =>
            /\ d \in DOMAIN store
            /\ device_data[d].online_time = store[d].online_time
            /\ device_data[d].is_online = store[d].is_online
            /\ device_data[d].last_date = ParseDate(store[d].last_date)

\* C7. Stale-day restore: the first poll cycle after a setup that found a record
\* of another day ends with current_day = the observation's date and with no
\* minutes of the stored day in online_minutes.
C7_StaleDayRestore ==
    \A d \in Devices :
        (Folded(d) /\ restored[d] = "stale") =>
            /\ device_data[d].last_date = Date(current_time[d])
            /\ device_data[d].online_time = 0

\* C7 witness: the first fold after a setup that found yesterday's record, which
\* holds minutes, and the device is observed online.
C7_Witness ==
    \E d \in Devices :
        /\ Folded(d) /\ restored[d] = "stale"
        /\ d \in DOMAIN store
        /\ store[d].online_time > 0
        /\ ParseDate(store[d].last_date) < Date(current_time[d])
        /\ device_data[d].is_online

C9_DayOfLastCheck ==
    /\ \A d \in Devices :
           device_data[d].last_check # None =>
               device_data[d].last_date = Date(device_data[d].last_check)
    /\ \A d \in DOMAIN store :
           store[d].last_check # NoKey =>
               ParseDate(store[d].last_date) = Date(ParseTime(store[d].last_check))

\* C9 witness: an observation of the second day is folded and persisted.
C9_Witness ==
    \E d \in DOMAIN store :
        /\ store[d].last_check # NoKey
        /\ Date(ParseTime(store[d].last_check)) = 1
        /\ device_data[d].last_check = ParseTime(store[d].last_check)
        /\ pc[d] = "idle"

\* C10. Save failure is non-fatal: a cycle whose load or save raised returns
\* with the folded state still in memory, the store untouched and the entry
\* ready to poll again; a cycle whose save succeeded has persisted the state
\* then in memory.
C10_SaveFailureNonFatal ==
    [][\A d \in Devices :
           (Folded(d) /\ pc'[d] = "idle") =>
               /\ device_data'[d] = device_data[d]
               /\ device_data'[d].last_check = current_time[d]
               /\ save_failed'[d] => store' = store
               /\ ~save_failed'[d] =>
                      /\ d \in DOMAIN store'
                      /\ store'[d].online_time = device_data'[d].online_time
                      /\ store'[d].is_online = device_data'[d].is_online
                      /\ ParseTime(store'[d].last_check) = device_data'[d].last_check]_vars

\* C10 witness: a cycle has returned after a failed save, leaving memory ahead
\* of the store.
C10_Witness ==
    \E d \in Devices :
        /\ pc[d] = "idle" /\ save_failed[d]
        /\ d \in DOMAIN store
        /\ device_data[d].online_time > store[d].online_time
        /\ device_data[d].last_date = ParseDate(store[d].last_date)

\* C11 as stated: a setup whose restore raised starts from the default zero
\* state and keeps no field of the record.
C11_LoadFailureDefaults ==
    \A d \in Devices :
        (pc[d] = "idle" /\ restored[d] = "failed") =>
            /\ device_data[d].online_time = 0
            /\ device_data[d].is_online = FALSE
            /\ device_data[d].last_check = None
            /\ device_data[d].last_date <= Date(now)

\* The cycle of entry d is under way.
InFlight(d) == pc[d] \in {"resolving", "probing", "fallback", "folded", "loaded"}

\* C12. Failure isolation: whatever a step of a poll cycle runs into, the cycle
\* goes on or returns device_data to the coordinator and leaves the entry ready
\* for its next tick; only the process stopping ends it otherwise, and no step
\* of one entry's cycle touches another entry's cycle or state.
C12_CycleNeverRaises ==
    [][\A d \in Devices :
           /\ InFlight(d) =>
                  \/ pc'[d] \in {"resolving", "probing", "fallback", "folded", "loaded"}
                  \/ pc'[d] = "idle" /\ published'[d]
                         /\ device_data'[d].last_date = Date(device_data'[d].last_check)
                  \/ \A e \in Devices : pc'[e] = "unloaded"
           /\ (InFlight(d) /\ pc'[d] # pc[d] /\ pc'[d] # "unloaded") =>
                  \A e \in Devices \ {d} :
                      pc'[e] = pc[e] /\ device_data'[e] = device_data[e]]_vars

\* C12 witness: a cycle whose fold raised (the counter holds text) has returned
\* its state, observation stored, and the entry is idle again.
C12_Witness ==
    \E d \in Devices :
        /\ pc[d] = "idle" /\ published[d]
        /\ device_data[d].online_time = Text
        /\ device_data[d].last_check # None
        /\ device_data[d].is_online

C14_FirstRefreshBeforeRegistration ==
    \A d \in Devices :
        registered[d] =>
            /\ published[d]
            /\ device_data[d].last_check # None

\* C14 witness: the entry is registered with its first observation while the
\* clock still shows the time of the setup: no polling period has gone by.
C14_Witness ==
    \E d \in Devices :
        /\ registered[d] /\ pc[d] = "idle"
        /\ now = 0
        /\ device_data[d].last_check = 0

\* A step of entry e's poll cycle.
StepOf(e) ==
    \/ PollStart(e)
    \/ Resolved(e)
    \/ Unresolved(e)
    \/ \E is_online \in BOOLEAN : ProbeReturn(e, is_online)
    \/ \E is_online \in BOOLEAN : FallbackPing(e, is_online)
    \/ StoreLoad(e)
    \/ StoreSave(e)

\* The cycle of entry d is waiting on its probe: lookup, ping or OS ping.
Probing(d) == pc[d] \in {"resolving", "probing", "fallback"}

\* C15 as stated: while one entry's cycle waits on its probe, every other
\* set-up entry's cycle can start or take its next step.
C15_TicksDoNotBlock ==
    \A d \in Devices : \A e \in Devices \ {d} :
        (Probing(d) /\ pc[e] # "unloaded") => ENABLED StepOf(e)

\* C16 as stated: no two scheduled entries share the same target (host).
C16_NoDuplicateTargets ==
    \A d \in configured : \A e \in configured \ {d} :
        (pc[d] # "unloaded" /\ pc[e] # "unloaded") => host[d] # host[e]

\* C17 as stated: what consumers read as the entry's snapshot (coordinator.data,
\* once published) is never a folded state whose save has not been attempted.
C17_SnapshotAfterSave ==
    \A d \in Devices :
        (published[d] /\ pc[d] = "folded") => device_data[d] = before[d]

\* The record persisted for entry d is the same in namespaces m and n.
SameRecord(m, n, d) ==
    /\ (d \in DOMAIN m) = (d \in DOMAIN n)
    /\ d \in DOMAIN m => m[d] = n[d]

\* C18 as stated: from the start of a cycle to the return of its probe (or to
\* the cycle being abandoned there) neither the entry's in-memory state nor its
\* persisted record changes.
C18_NothingChangesDuringProbe ==
    [][\A d \in Devices :
           ((pc[d] = "idle" \/ Probing(d)) /\ (Probing(d)' \/ (Probing(d) /\ pc'[d] = "unloaded"))) =>
               /\ device_data'[d] = device_data[d]
               /\ SameRecord(store', store, d)]_vars

\* C19. Restart gaps are never credited: the first poll cycle after a setup does
\* not raise online_minutes above the restored value.
C19_RestartGapNotCredited ==
    \A d \in Devices :
        (Folded(d) /\ restored[d] # "none") =>
            device_data[d].online_time <= before[d].online_time

\* C19 witness: the record says online, the first probe after the restart on the
\* same day says online too, later than the stored last check.
C19_Witness ==
    \E d \in Devices :
        /\ Folded(d) /\ restored[d] = "same_day" /\ ~NewDay(d)
        /\ d \in DOMAIN store /\ store[d].is_online
        /\ device_data[d].is_online
        /\ before[d].last_check # None
        /\ current_time[d] > before[d].last_check
        /\ before[d].online_time > 0

\* C20. Persisted record mirrors memory: right after a cycle whose save
\* succeeded, the entry's record holds online_time, last_date, is_online and
\* last_check of the in-memory state, online_time being a whole number.
C20_RecordMirrorsMemory ==
    [][\A d \in Devices :
           (pc[d] = "loaded" /\ pc'[d] = "idle" /\ ~save_failed'[d]) =>
               /\ d \in DOMAIN store'
               /\ store'[d].online_time = device_data'[d].online_time
               /\ store'[d].online_time \in Nat
               /\ IsDateIso(store'[d].last_date)
               /\ ParseDate(store'[d].last_date) = device_data'[d].last_date
               /\ store'[d].is_online = device_data'[d].is_online
               /\ IsTimeIso(store'[d].last_check)
               /\ ParseTime(store'[d].last_check) = device_data'[d].last_check]_vars

\* C20 witness: a cycle has saved a state with minutes on the counter.
C20_Witness ==
    \E d \in Devices :
        /\ pc[d] = "idle" /\ published[d] /\ ~save_failed[d]
        /\ d \in DOMAIN store
        /\ store[d].online_time = device_data[d].online_time
        /\ device_data[d].online_time > 1
        /\ store[d].last_check = TimeIso(device_data[d].last_check)

====
